---- MODULE Spec2Model ----
(***************************************************************************)
(* Payroll computation of the staff operations platform.                   *)
(*                                                                         *)
(* The model follows backend/app/services/salary_calculator.py (the        *)
(* SalaryCalculator: calendar figures, attendance and sales aggregation,   *)
(* target evaluation, advance ledger, salary record) together with the     *)
(* admin operation that issues advances (backend/app/routers/admin.py).    *)
(*                                                                         *)
(* Amounts are the code's floats, modelled as exact integers: every input  *)
(* set below is chosen so that each quotient the code forms (salary / 30,  *)
(* percentage / 100) is exact, and \div is then the exact quotient.        *)
(*                                                                         *)
(* One step of a payroll run is one database transaction of the code: the  *)
(* statements from the previous commit up to and including the next        *)
(* db.commit().                                                            *)
(***************************************************************************)
EXTENDS Integers, Sequences, FiniteSets, TLC

\* ------------------------------------------------------------------ bounds
MaxAdvances == 2      \* rows the advances table may hold
MaxRuns == 2          \* single-staff runs started over a behaviour
MaxRequests == 2      \* requests that may be in flight at once
MaxTargets == 4       \* rows the targets table may hold

Requests == 1..MaxRequests

\* ------------------------------------------------------------ small helpers
None == << >>                      \* Python None of an Optional column
Some(v) == << v >>
\* Python truthiness of an Optional[float]: None and 0 are falsy
Truthy(opt) == opt # None /\ opt[1] # 0

Min(a, b) == IF a <= b THEN a ELSE b

RECURSIVE SumSeq(_)
SumSeq(s) == IF s = << >> THEN 0 ELSE Head(s) + SumSeq(Tail(s))

\* --------------------------------------------------------------- calendar
IsLeap(year) == (year % 4 = 0 /\ year % 100 # 0) \/ year % 400 = 0

\* calendar.monthrange(year, month)[1]
DaysInMonth(year, month) ==
    IF month = 2 THEN (IF IsLeap(year) THEN 29 ELSE 28)
    ELSE IF month \in {4, 6, 9, 11} THEN 30 ELSE 31

\* date(year, month, day).weekday(): Monday is 0, Sunday is 6
Weekday(year, month, day) ==
    LET t  == << 0, 3, 2, 5, 0, 3, 5, 1, 4, 6, 2, 4 >>
        y  == IF month < 3 THEN year - 1 ELSE year
        su == (y + (y \div 4) - (y \div 100) + (y \div 400) + t[month] + day) % 7
    IN  (su + 6) % 7

\* Dates are <<year, month, day>>; DateLE is date.__le__
DateLE(a, b) ==
    \/ a[1] < b[1]
    \/ a[1] = b[1] /\ a[2] < b[2]
    \/ a[1] = b[1] /\ a[2] = b[2] /\ a[3] <= b[3]

\* month_year strings the callers pass ("YYYY-MM")
MonthYears == { "2024-01", "2024-02" }

\* the months of the pay basis runs: a month of 31 and a month of 30 days
PayMonthYears == { "2024-01", "2024-04" }

AllMonthYears == MonthYears \cup PayMonthYears

\* year, month = map(int, month_year.split('-'))
ParseMonthYear(month_year) ==
    CASE month_year = "2024-01" -> << 2024, 1 >>
      [] month_year = "2024-02" -> << 2024, 2 >>
      [] month_year = "2024-04" -> << 2024, 4 >>

\* f"{year}-{month:02d}"
FormatPeriod(year, month) ==
    CASE year = 2024 /\ month = 1 -> "2024-01"
      [] year = 2024 /\ month = 2 -> "2024-02"
      [] year = 2024 /\ month = 4 -> "2024-04"

\* start_date and end_date of the month, as the aggregators compute them
MonthStart(year, month) == << year, month, 1 >>
MonthEnd(year, month) == << year, month, DaysInMonth(year, month) >>

\* ------------------------------------------------------------------ state
VARIABLES
    staff,         \* staff table: id -> row
    attendance,    \* attendance table: sequence of rows
    sales,         \* sales table: sequence of rows
    targets,       \* targets table: sequence of rows (id = index)
    achievements,  \* achievements table: sequence of rows (id = index)
    advances,      \* advances table: sequence of rows (id = index)
    salary,        \* salary table: sequence of rows (id = index)
    pc,            \* per request: position of the payroll call
    call,          \* per request: arguments and loop state of the call
    loc,           \* per request: locals of calculate_salary
    response,      \* per request: what the last finished call returned
    ledgerHist,    \* per advance: how often a run for a month deducted it
    nruns          \* single-staff runs the accepted calls amount to

inputs == << staff, attendance, sales, targets >>
tables == << achievements, advances, salary, ledgerHist >>
runs == << pc, call, loc, response, nruns >>
vars == << staff, attendance, sales, targets, achievements, advances, salary,
           pc, call, loc, response, ledgerHist, nruns >>

\* ------------------------------------------------------------- the tables
\* staff ids a caller may name; 3 is the id of no staff row
RequestStaffIds == { 1, 2, 3 }

StaffRows ==
    (1 :> [ basic_salary |-> 30000, incentive_percentage |-> 3, is_active |-> TRUE ]) @@
    (2 :> [ basic_salary |-> 15000, incentive_percentage |-> 0, is_active |-> TRUE ])

AttendanceRows ==
    << [ staff_id |-> 1, date |-> << 2024, 1, 2 >>, status |-> "present",
         check_in_time |-> Some("set"), check_out_time |-> Some("set") ],
       [ staff_id |-> 1, date |-> << 2024, 1, 3 >>, status |-> "present",
         check_in_time |-> Some("set"), check_out_time |-> Some("set") ],
       [ staff_id |-> 1, date |-> << 2024, 1, 4 >>, status |-> "absent",
         check_in_time |-> None, check_out_time |-> None ],
       [ staff_id |-> 2, date |-> << 2024, 2, 1 >>, status |-> "present",
         check_in_time |-> Some("set"), check_out_time |-> Some("set") ] >>

SalesRows ==
    << [ staff_id |-> 1, sale_amount |-> 8000, sale_date |-> << 2024, 1, 10 >> ],
       [ staff_id |-> 1, sale_amount |-> 4000, sale_date |-> << 2024, 1, 31 >> ],
       [ staff_id |-> 1, sale_amount |-> 2000, sale_date |-> << 2024, 2, 5 >> ],
       [ staff_id |-> 2, sale_amount |-> 6000, sale_date |-> << 2024, 1, 15 >> ] >>

TargetRows ==
    << [ staff_id |-> 1, target_type |-> "monthly", total_target_amount |-> 10000,
         period_start |-> << 2024, 1, 1 >>, period_end |-> << 2024, 1, 31 >>,
         incentive_percentage |-> 5 ],
       [ staff_id |-> 2, target_type |-> "quarterly", total_target_amount |-> 20000,
         period_start |-> << 2024, 1, 1 >>, period_end |-> << 2024, 3, 31 >>,
         incentive_percentage |-> 5 ],
       [ staff_id |-> 2, target_type |-> "monthly", total_target_amount |-> 5000,
         period_start |-> << 2024, 1, 15 >>, period_end |-> << 2024, 2, 15 >>,
         incentive_percentage |-> 5 ] >>

\* ------------------------------------------------------------- aggregators
\* SalaryCalculator._get_working_days
get_working_days(year, month) ==
    Cardinality({ day \in 1..DaysInMonth(year, month) : Weekday(year, month, day) # 6 })

\* get_sunday_count counting the Saturdays
get_sunday_count_of_saturdays(year, month) ==
    Cardinality({ day \in 1..DaysInMonth(year, month) : Weekday(year, month, day) = 5 })

\* SalaryCalculator._get_sunday_count
get_sunday_count(year, month) ==
    Cardinality({ day \in 1..DaysInMonth(year, month) : Weekday(year, month, day) = 6 })

\* SalaryCalculator._get_present_days
get_present_days(att, staff_id, year, month) ==
    Cardinality({ i \in DOMAIN att :
        /\ att[i].staff_id = staff_id
        /\ DateLE(MonthStart(year, month), att[i].date)
        /\ DateLE(att[i].date, MonthEnd(year, month))
        /\ att[i].status = "present" })

\* func.sum(Sales.sale_amount) over the month, "or 0.0"
month_sales(sal, staff_id, year, month) ==
    SumSeq([ i \in DOMAIN sal |->
        IF /\ sal[i].staff_id = staff_id
           /\ DateLE(MonthStart(year, month), sal[i].sale_date)
           /\ DateLE(sal[i].sale_date, MonthEnd(year, month))
        THEN sal[i].sale_amount ELSE 0 ])

\* calculate_basic_incentive with the percentage taken as a factor
calculate_basic_incentive_not_per_cent(stf, sal, staff_id, year, month) ==
    IF staff_id \notin DOMAIN stf \/ stf[staff_id].incentive_percentage = 0
    THEN 0
    ELSE month_sales(sal, staff_id, year, month) * stf[staff_id].incentive_percentage

\* SalaryCalculator._calculate_basic_incentive
calculate_basic_incentive(stf, sal, staff_id, year, month) ==
    IF staff_id \notin DOMAIN stf \/ stf[staff_id].incentive_percentage = 0
    THEN 0
    ELSE (month_sales(sal, staff_id, year, month) * stf[staff_id].incentive_percentage) \div 100

\* -------------------------------------------------------- target evaluator
\* matching_targets without the filter on the kind of target
matching_targets_of_any_kind(tgt, staff_id, year, month) ==
    { i \in DOMAIN tgt :
        /\ tgt[i].staff_id = staff_id
        /\ DateLE(tgt[i].period_start, MonthStart(year, month))
        /\ DateLE(MonthEnd(year, month), tgt[i].period_end) }

\* the rows the query of _calculate_target_incentive matches
matching_targets(tgt, staff_id, year, month) ==
    { i \in DOMAIN tgt :
        /\ tgt[i].staff_id = staff_id
        /\ tgt[i].target_type = "monthly"
        /\ DateLE(tgt[i].period_start, MonthStart(year, month))
        /\ DateLE(MonthEnd(year, month), tgt[i].period_end) }

\* (actual_sales / total_target_amount) * 100 if total_target_amount > 0 else 0
achievement_percentage(actual_sales, total_target_amount) ==
    IF total_target_amount > 0
    THEN (actual_sales * 100) \div total_target_amount
    ELSE 0

\* target_incentive without the cap at the target amount
target_incentive_uncapped(actual_sales, total_target_amount, incentive_percentage) ==
    (actual_sales * incentive_percentage) \div 100

\* target_incentive with no incentive for a target without a positive amount
target_incentive_not_without_amount(actual_sales, total_target_amount, incentive_percentage) ==
    IF total_target_amount <= 0
    THEN 0
    ELSE IF achievement_percentage(actual_sales, total_target_amount) >= 100
    THEN (total_target_amount * incentive_percentage) \div 100
    ELSE (actual_sales * incentive_percentage) \div 100

\* the incentive of _calculate_target_incentive for a target that was found
target_incentive(actual_sales, total_target_amount, incentive_percentage) ==
    IF achievement_percentage(actual_sales, total_target_amount) >= 100
    THEN (total_target_amount * incentive_percentage) \div 100
    ELSE (actual_sales * incentive_percentage) \div 100

\* achievement_row with the target amount stored as the achieved amount
achievement_row_of_target_amount(tgt, sal, t, staff_id, year, month) ==
    LET actual_sales == month_sales(sal, staff_id, year, month) IN
    [ staff_id |-> staff_id,
      target_id |-> t,
      achieved_amount |-> tgt[t].total_target_amount,
      achievement_percentage |->
          achievement_percentage(actual_sales, tgt[t].total_target_amount),
      incentive_earned |->
          target_incentive(actual_sales, tgt[t].total_target_amount,
                           tgt[t].incentive_percentage),
      period |-> FormatPeriod(year, month) ]

\* the Achievements row _calculate_target_incentive saves for target id t
achievement_row(tgt, sal, t, staff_id, year, month) ==
    LET actual_sales == month_sales(sal, staff_id, year, month) IN
    [ staff_id |-> staff_id,
      target_id |-> t,
      achieved_amount |-> actual_sales,
      achievement_percentage |->
          achievement_percentage(actual_sales, tgt[t].total_target_amount),
      incentive_earned |->
          target_incentive(actual_sales, tgt[t].total_target_amount,
                           tgt[t].incentive_percentage),
      period |-> FormatPeriod(year, month) ]

\* ----------------------------------------------------------- advance ledger
\* deduct_advance with a partial deduction that is not added to total_deducted
deduct_advance_total_not_updated(advance) ==
    IF advance.deduction_plan = "partial" /\ Truthy(advance.monthly_deduction_amount)
    THEN LET deduction_amount ==
                 Min(advance.monthly_deduction_amount[1], advance.remaining_amount)
             remaining == advance.remaining_amount - deduction_amount
         IN  [ advance |->
                 [ advance EXCEPT
                     !.remaining_amount = remaining,
                     !.status = IF remaining <= 0 THEN "cleared" ELSE advance.status ],
               deduction |-> deduction_amount,
               touched |-> TRUE ]
    ELSE IF advance.deduction_plan = "full"
    THEN [ advance |->
             [ advance EXCEPT
                 !.total_deducted = advance.total_deducted + advance.remaining_amount,
                 !.remaining_amount = 0,
                 !.status = "cleared" ],
           deduction |-> advance.remaining_amount,
           touched |-> TRUE ]
    ELSE [ advance |-> advance, deduction |-> 0, touched |-> FALSE ]

\* deduct_advance with a full deduction that leaves the status as it was
deduct_advance_full_not_cleared(advance) ==
    IF advance.deduction_plan = "partial" /\ Truthy(advance.monthly_deduction_amount)
    THEN LET deduction_amount ==
                 Min(advance.monthly_deduction_amount[1], advance.remaining_amount)
             remaining == advance.remaining_amount - deduction_amount
         IN  [ advance |->
                 [ advance EXCEPT
                     !.total_deducted = advance.total_deducted + deduction_amount,
                     !.remaining_amount = remaining,
                     !.status = IF remaining <= 0 THEN "cleared" ELSE advance.status ],
               deduction |-> deduction_amount,
               touched |-> TRUE ]
    ELSE IF advance.deduction_plan = "full"
    THEN [ advance |->
             [ advance EXCEPT
                 !.total_deducted = advance.total_deducted + advance.remaining_amount,
                 !.remaining_amount = 0 ],
           deduction |-> advance.remaining_amount,
           touched |-> TRUE ]
    ELSE [ advance |-> advance, deduction |-> 0, touched |-> FALSE ]

\* deduct_advance with a partial deduction of the monthly amount, not of the
\* smaller of it and the remaining amount
deduct_advance_without_min(advance) ==
    IF advance.deduction_plan = "partial" /\ Truthy(advance.monthly_deduction_amount)
    THEN LET deduction_amount == advance.monthly_deduction_amount[1]
             remaining == advance.remaining_amount - deduction_amount
         IN  [ advance |->
                 [ advance EXCEPT
                     !.total_deducted = advance.total_deducted + deduction_amount,
                     !.remaining_amount = remaining,
                     !.status = IF remaining <= 0 THEN "cleared" ELSE advance.status ],
               deduction |-> deduction_amount,
               touched |-> TRUE ]
    ELSE IF advance.deduction_plan = "full"
    THEN [ advance |->
             [ advance EXCEPT
                 !.total_deducted = advance.total_deducted + advance.remaining_amount,
                 !.remaining_amount = 0,
                 !.status = "cleared" ],
           deduction |-> advance.remaining_amount,
           touched |-> TRUE ]
    ELSE [ advance |-> advance, deduction |-> 0, touched |-> FALSE ]

\* the loop body of _calculate_advance_deduction for one active advance:
\* the advance as it is left, and the amount added to total_deduction
deduct_advance(advance) ==
    IF advance.deduction_plan = "partial" /\ Truthy(advance.monthly_deduction_amount)
    THEN LET deduction_amount ==
                 Min(advance.monthly_deduction_amount[1], advance.remaining_amount)
             remaining == advance.remaining_amount - deduction_amount
         IN  [ advance |->
                 [ advance EXCEPT
                     !.total_deducted = advance.total_deducted + deduction_amount,
                     !.remaining_amount = remaining,
                     !.status = IF remaining <= 0 THEN "cleared" ELSE advance.status ],
               deduction |-> deduction_amount,
               touched |-> TRUE ]
    ELSE IF advance.deduction_plan = "full"
    THEN [ advance |->
             [ advance EXCEPT
                 !.total_deducted = advance.total_deducted + advance.remaining_amount,
                 !.remaining_amount = 0,
                 !.status = "cleared" ],
           deduction |-> advance.remaining_amount,
           touched |-> TRUE ]
    ELSE [ advance |-> advance, deduction |-> 0, touched |-> FALSE ]

\* active_advances without the filter on the staff member
active_advances_of_any_staff(adv, staff_id) ==
    { i \in DOMAIN adv : adv[i].status = "active" }

\* the advances the query of _calculate_advance_deduction returns
active_advances(adv, staff_id) ==
    { i \in DOMAIN adv : adv[i].staff_id = staff_id /\ adv[i].status = "active" }

\* _calculate_advance_deduction: the advances table after the commit
ledger_advances(adv, staff_id) ==
    [ i \in DOMAIN adv |->
        IF i \in active_advances(adv, staff_id)
        THEN deduct_advance(adv[i]).advance ELSE adv[i] ]

\* ledger_total with each deduction assigned to total_deduction, not added
ledger_total_of_last_advance(adv, staff_id) ==
    LET active == active_advances(adv, staff_id) IN
    IF active = {} THEN 0
    ELSE deduct_advance(adv[CHOOSE i \in active : \A j \in active : j <= i]).deduction

\* _calculate_advance_deduction: the total_deduction it returns
ledger_total(adv, staff_id) ==
    SumSeq([ i \in DOMAIN adv |->
        IF i \in active_advances(adv, staff_id)
        THEN deduct_advance(adv[i]).deduction ELSE 0 ])

\* ledger_in_order leaving the loop after the first full deduction
RECURSIVE ledger_in_order_up_to_first_full(_, _, _)
ledger_in_order_up_to_first_full(adv, order, total_deduction) ==
    IF order = << >>
    THEN [ advances |-> adv, total_deduction |-> total_deduction ]
    ELSE LET step == deduct_advance(adv[Head(order)])
             after == [ adv EXCEPT ![Head(order)] = step.advance ]
         IN  IF adv[Head(order)].deduction_plan = "full"
             THEN [ advances |-> after,
                    total_deduction |-> total_deduction + step.deduction ]
             ELSE ledger_in_order_up_to_first_full(after, Tail(order),
                                                   total_deduction + step.deduction)

\* the loop of _calculate_advance_deduction over the active advances in the
\* order the query returned them: the advances table and the total_deduction
\* after the last iteration
RECURSIVE ledger_in_order(_, _, _)
ledger_in_order(adv, order, total_deduction) ==
    IF order = << >>
    THEN [ advances |-> adv, total_deduction |-> total_deduction ]
    ELSE LET step == deduct_advance(adv[Head(order)])
         IN  ledger_in_order([ adv EXCEPT ![Head(order)] = step.advance ],
                             Tail(order), total_deduction + step.deduction)

\* the advances whose row the ledger writes for this staff member
ledger_touched(adv, staff_id) ==
    { i \in active_advances(adv, staff_id) : deduct_advance(adv[i]).touched }

\* ------------------------------------------------------------ initial state
IdleCall ==
    [ kind |-> "none", month_year |-> "", queue |-> << >>, created |-> << >>,
      errors |-> << >> ]

NoLocals ==
    [ basic_salary |-> 0, working_days |-> 0, present_days |-> 0, sunday_count |-> 0,
      salary_for_days |-> 0, sunday_bonus |-> 0, target_incentive |-> 0,
      basic_incentive |-> 0, advance_deduction |-> 0, steps |-> << >> ]

NoResponse == [ status |-> "none", error |-> "", records |-> << >> ]

\* what an operation that is not a payroll call returns
Success == [ status |-> "ok", error |-> "", records |-> << >> ]
Failure(error) == [ status |-> "error", error |-> error, records |-> << >> ]

InitRuns ==
    /\ pc = [ r \in Requests |-> "idle" ]
    /\ call = [ r \in Requests |-> IdleCall ]
    /\ loc = [ r \in Requests |-> NoLocals ]
    /\ response = [ r \in Requests |-> NoResponse ]
    /\ nruns = 0

InitWritten ==
    /\ achievements = << >>
    /\ advances = << >>
    /\ salary = << >>
    /\ ledgerHist = << >>

Init ==
    /\ staff = StaffRows
    /\ attendance = AttendanceRows
    /\ sales = SalesRows
    /\ targets = TargetRows
    /\ InitWritten
    /\ InitRuns

\* ------------------------------------------------------------ issue_advance
\* request bodies (AdvanceCreate) the admin sends: staff_id, advance_amount,
\* deduction_plan, monthly_deduction_amount.  AdvanceCreate constrains
\* neither the sign of advance_amount nor monthly_deduction_amount.
AdvanceRequests ==
    ({ 1, 2 } \X { 1500 } \X { "partial" } \X { Some(1000) }) \cup
    ({ 1, 2 } \X { 1500 } \X { "full" } \X { None }) \cup
    ({ 1 } \X { 1500 } \X { "partial" } \X { None }) \cup
    ({ 1 } \X { -1000 } \X { "partial" } \X { Some(1000) })

\* the Advances row issue_advance creates from the request body
new_advance(staff_id, advance_amount, deduction_plan, monthly_deduction_amount) ==
    [ staff_id |-> staff_id,
      advance_amount |-> advance_amount,
      total_deducted |-> 0,
      remaining_amount |-> advance_amount,
      deduction_plan |-> deduction_plan,
      monthly_deduction_amount |-> monthly_deduction_amount,
      status |-> "active" ]

\* POST /advance/issue
issue_advance(staff_id, advance_amount, deduction_plan, monthly_deduction_amount) ==
    /\ Len(advances) < MaxAdvances
    /\ staff_id \in DOMAIN staff
    /\ advances' = Append(advances,
          new_advance(staff_id, advance_amount, deduction_plan, monthly_deduction_amount))
    /\ ledgerHist' = Append(ledgerHist, [ m \in AllMonthYears |-> 0 ])
    /\ UNCHANGED << inputs, achievements, salary, runs >>

\* ------------------------------------------------------------ payroll calls
\* salary_for_days on the days the staff member was present
salary_for_present_days(basic_salary, working_days, present_days) ==
    (basic_salary * present_days) \div 30

\* daily_rate * working_days with daily_rate = basic_salary / 30, in a
\* calculate_salary that has working_days and present_days at hand
salary_for_days(basic_salary, working_days, present_days) ==
    (basic_salary * working_days) \div 30

\* a caller invokes SalaryCalculator.generate_salary_record(staff_id, month_year)
generate_salary_record(r, staff_id, month_year) ==
    /\ pc[r] = "idle"
    /\ nruns < MaxRuns
    /\ pc' = [ pc EXCEPT ![r] = "calc" ]
    /\ call' = [ call EXCEPT ![r] =
          [ kind |-> "single", month_year |-> month_year,
            queue |-> << staff_id >>, created |-> << >>, errors |-> << >> ] ]
    /\ response' = [ response EXCEPT ![r] = NoResponse ]
    /\ nruns' = nruns + 1
    /\ UNCHANGED << inputs, tables, loc >>

\* the ids of active_staff, in the order the loop visits them
RECURSIVE ActiveStaff(_, _)
ActiveStaff(stf, ids) ==
    IF ids = {} THEN << >>
    ELSE LET id == CHOOSE x \in ids : \A y \in ids : x <= y
             rest == ActiveStaff(stf, ids \ { id })
         IN  IF stf[id].is_active THEN << id >> \o rest ELSE rest

\* a caller invokes SalaryCalculator.calculate_all_salaries(month_year)
calculate_all_salaries(r, month_year) ==
    LET active_staff == ActiveStaff(staff, DOMAIN staff) IN
    /\ pc[r] = "idle"
    /\ nruns + Len(active_staff) <= MaxRuns
    /\ nruns' = nruns + Len(active_staff)
    /\ IF active_staff = << >>
       THEN /\ response' = [ response EXCEPT ![r] =
                  [ status |-> "ok", error |-> "", records |-> << >> ] ]
            /\ UNCHANGED << pc, call >>
       ELSE /\ pc' = [ pc EXCEPT ![r] = "calc" ]
            /\ call' = [ call EXCEPT ![r] =
                  [ kind |-> "batch", month_year |-> month_year,
                    queue |-> active_staff, created |-> << >>, errors |-> << >> ] ]
            /\ response' = [ response EXCEPT ![r] = NoResponse ]
    /\ UNCHANGED << inputs, tables, loc >>

\* EndOfStaff with the exception of a single call kept from the caller
EndOfStaff_error_not_reported(r, created, error) ==
    LET rest == Tail(call[r].queue) IN
    /\ loc' = [ loc EXCEPT ![r] = NoLocals ]
    /\ IF call[r].kind = "single" \/ rest = << >>
       THEN /\ pc' = [ pc EXCEPT ![r] = "idle" ]
            /\ call' = [ call EXCEPT ![r] = IdleCall ]
            /\ response' = [ response EXCEPT ![r] =
                  [ status |-> "ok", error |-> "", records |-> created ] ]
       ELSE /\ pc' = [ pc EXCEPT ![r] = "calc" ]
            /\ call' = [ call EXCEPT
                  ![r].queue = rest,
                  ![r].created = created,
                  ![r].errors = IF error # ""
                                THEN Append(@, Head(call[r].queue)) ELSE @ ]
            /\ UNCHANGED response

\* the run for the staff member at the head of the queue is over: with the
\* exception error (single call: it reaches the caller; batch: the loop
\* catches it, prints a line for the staff member, kept in errors, and
\* continues), or with created as the records so far
EndOfStaff(r, created, error) ==
    LET rest == Tail(call[r].queue) IN
    /\ loc' = [ loc EXCEPT ![r] = NoLocals ]
    /\ IF call[r].kind = "single" \/ rest = << >>
       THEN /\ pc' = [ pc EXCEPT ![r] = "idle" ]
            /\ call' = [ call EXCEPT ![r] = IdleCall ]
            /\ response' = [ response EXCEPT ![r] =
                  IF call[r].kind = "single" /\ error # ""
                  THEN [ status |-> "error", error |-> error, records |-> << >> ]
                  ELSE [ status |-> "ok", error |-> "", records |-> created ] ]
       ELSE /\ pc' = [ pc EXCEPT ![r] = "calc" ]
            /\ call' = [ call EXCEPT
                  ![r].queue = rest,
                  ![r].created = created,
                  ![r].errors = IF error # ""
                                THEN Append(@, Head(call[r].queue)) ELSE @ ]
            /\ UNCHANGED response

\* steps_to_target_commit with the sales added up before the target is looked
\* for
steps_to_target_commit_sales_first(target_found) ==
    << "get_working_days", "get_present_days", "get_sunday_count" >> \o
    (IF target_found
     THEN << "sales_sum", "target_query", "achievement_write" >>
     ELSE << "sales_sum", "target_query" >>)

\* what calculate_salary does, in the order of its statements, up to the
\* commit of _calculate_target_incentive, which adds up the sales and writes
\* the Achievements row only if its query found a target
steps_to_target_commit(target_found) ==
    << "get_working_days", "get_present_days", "get_sunday_count" >> \o
    (IF target_found
     THEN << "target_query", "sales_sum", "achievement_write" >>
     ELSE << "target_query" >>)

\* what calculate_salary does from there up to the commit of
\* _calculate_advance_deduction: _calculate_basic_incentive adds up the sales
\* unless the staff member's incentive_percentage is 0, then the ledger runs
steps_to_ledger_commit(incentive_percentage) ==
    (IF incentive_percentage = 0 THEN << >> ELSE << "sales_sum" >>) \o
    << "advance_ledger" >>

\* calculate_salary up to the commit of _calculate_target_incentive: staff
\* lookup, calendar figures, present days, base pay, target evaluation and
\* the Achievements row
calculate_salary(r) ==
    LET staff_id == Head(call[r].queue)
        year == ParseMonthYear(call[r].month_year)[1]
        month == ParseMonthYear(call[r].month_year)[2]
    IN
    /\ pc[r] = "calc"
    /\ IF staff_id \notin DOMAIN staff
       THEN /\ EndOfStaff(r, call[r].created, "NotFound")
            /\ UNCHANGED << inputs, tables, nruns >>
       ELSE LET working_days == get_working_days(year, month)
                sunday_count == get_sunday_count(year, month)
                found == matching_targets(targets, staff_id, year, month)
                present_days == get_present_days(attendance, staff_id, year, month)
                locals(incentive) ==
                    [ NoLocals EXCEPT
                        !.steps = steps_to_target_commit(found # {}),
                        !.basic_salary = staff[staff_id].basic_salary,
                        !.working_days = working_days,
                        !.present_days = present_days,
                        !.sunday_count = sunday_count,
                        !.salary_for_days =
                            salary_for_days(staff[staff_id].basic_salary,
                                            working_days, present_days),
                        !.sunday_bonus =
                            (staff[staff_id].basic_salary * sunday_count) \div 30,
                        !.target_incentive = incentive ]
            IN
            /\ \/ /\ found = {}
                  /\ loc' = [ loc EXCEPT ![r] = locals(0) ]
                  /\ UNCHANGED achievements
               \/ \E t \in found :
                    LET row == achievement_row(targets, sales, t, staff_id, year, month) IN
                    /\ achievements' = Append(achievements, row)
                    /\ loc' = [ loc EXCEPT ![r] = locals(row.incentive_earned) ]
            /\ pc' = [ pc EXCEPT ![r] = "ledger" ]
            /\ UNCHANGED << inputs, advances, salary, ledgerHist, call, response, nruns >>

\* calculate_salary from there up to the commit of
\* _calculate_advance_deduction: basic incentive and the advance ledger
calculate_advance_deduction(r) ==
    LET staff_id == Head(call[r].queue)
        year == ParseMonthYear(call[r].month_year)[1]
        month == ParseMonthYear(call[r].month_year)[2]
    IN
    /\ pc[r] = "ledger"
    /\ loc' = [ loc EXCEPT
          ![r].basic_incentive =
              calculate_basic_incentive(staff, sales, staff_id, year, month),
          ![r].advance_deduction = ledger_total(advances, staff_id),
          ![r].steps = @ \o steps_to_ledger_commit(staff[staff_id].incentive_percentage) ]
    /\ advances' = ledger_advances(advances, staff_id)
    /\ ledgerHist' = [ i \in DOMAIN ledgerHist |->
          IF i \in ledger_touched(advances, staff_id)
          THEN [ ledgerHist[i] EXCEPT ![call[r].month_year] = @ + 1 ]
          ELSE ledgerHist[i] ]
    /\ pc' = [ pc EXCEPT ![r] = "persist" ]
    /\ UNCHANGED << inputs, achievements, salary, call, response, nruns >>

\* gross_salary without the Sunday bonus
gross_salary_without_sunday_bonus(l) ==
    l.salary_for_days + l.target_incentive + l.basic_incentive

\* gross_salary as calculate_salary forms it from its locals
gross_salary(l) ==
    l.salary_for_days + l.sunday_bonus + l.target_incentive + l.basic_incentive

\* the Salary row generate_salary_record builds from salary_data
salary_row(staff_id, month_year, l) ==
    [ staff_id |-> staff_id,
      month_year |-> month_year,
      basic_salary |-> l.basic_salary,
      working_days |-> l.working_days,
      present_days |-> l.present_days,
      sunday_count |-> l.sunday_count,
      salary_for_days |-> l.salary_for_days,
      target_incentive |-> l.target_incentive,
      basic_incentive |-> l.basic_incentive,
      gross_salary |-> gross_salary(l),
      advance_deduction |-> l.advance_deduction,
      net_salary |-> gross_salary(l) - l.advance_deduction,
      payment_status |-> "pending",
      payment_date |-> None ]

\* save_salary_record that also marks the staff member as not active
save_salary_record_updating_staff(r) ==
    /\ pc[r] = "persist"
    /\ salary' = Append(salary,
          salary_row(Head(call[r].queue), call[r].month_year, loc[r]))
    /\ staff' = [ staff EXCEPT ![Head(call[r].queue)].is_active = FALSE ]
    /\ EndOfStaff(r, Append(call[r].created, Len(salary) + 1), "")
    /\ UNCHANGED << attendance, sales, targets, achievements, advances, ledgerHist, nruns >>

\* generate_salary_record after calculate_salary returned: the Salary row is
\* added and committed
save_salary_record(r) ==
    /\ pc[r] = "persist"
    /\ salary' = Append(salary,
          salary_row(Head(call[r].queue), call[r].month_year, loc[r]))
    /\ EndOfStaff(r, Append(call[r].created, Len(salary) + 1), "")
    /\ UNCHANGED << inputs, achievements, advances, ledgerHist, nruns >>

\* the transaction in progress raises (the store fails a query or a commit):
\* nothing of it is written, what earlier commits wrote stays
raise_error(r) ==
    /\ pc[r] \in { "calc", "ledger", "persist" }
    /\ EndOfStaff(r, call[r].created, "PersistenceFailure")
    /\ UNCHANGED << inputs, tables, nruns >>

\* ---------------------------------------------------------- specifications
IssueAdvance ==
    \E body \in AdvanceRequests :
        issue_advance(body[1], body[2], body[3], body[4])

Payroll(r) ==
    \/ \E staff_id \in RequestStaffIds, month_year \in MonthYears :
          generate_salary_record(r, staff_id, month_year)
    \/ \E month_year \in MonthYears : calculate_all_salaries(r, month_year)
    \/ calculate_salary(r)
    \/ calculate_advance_deduction(r)
    \/ save_salary_record(r)
    \/ raise_error(r)

\* requests are served one at a time, each to completion
Next == (pc[1] = "idle" /\ IssueAdvance) \/ Payroll(1)

Spec == Init /\ [][Next]_vars

\* some Salary row exists for (staff_id, month_year): what the callers'
\* check-then-act looks for before computing
HasSalary(staff_id, month_year) ==
    \E i \in DOMAIN salary :
        salary[i].staff_id = staff_id /\ salary[i].month_year = month_year

\* a payroll request of a caller that checked, when the request arrived, that
\* the salary it asks for has not been computed yet
CheckedPayroll(r) ==
    \/ \E staff_id \in RequestStaffIds, month_year \in MonthYears :
          /\ ~ HasSalary(staff_id, month_year)
          /\ generate_salary_record(r, staff_id, month_year)
    \/ \E month_year \in MonthYears :
          /\ \A staff_id \in DOMAIN staff : ~ HasSalary(staff_id, month_year)
          /\ calculate_all_salaries(r, month_year)
    \/ calculate_salary(r)
    \/ calculate_advance_deduction(r)
    \/ save_salary_record(r)

\* requests are served concurrently, the transactions of their payroll runs
\* interleave; no transaction fails
NextConcurrent == IssueAdvance \/ \E r \in Requests : CheckedPayroll(r)

SpecConcurrent == Init /\ [][NextConcurrent]_vars

\* ---- target evaluation over a range of targets and sales
SalesScenarios ==
    { << >>,
      << [ staff_id |-> 1, sale_amount |-> 8000, sale_date |-> << 2024, 1, 10 >> ] >>,
      << [ staff_id |-> 1, sale_amount |-> 8000, sale_date |-> << 2024, 1, 10 >> ],
         [ staff_id |-> 1, sale_amount |-> 2000, sale_date |-> << 2024, 1, 31 >> ],
         [ staff_id |-> 1, sale_amount |-> 6000, sale_date |-> << 2024, 2, 1 >> ] >>,
      << [ staff_id |-> 1, sale_amount |-> 8000, sale_date |-> << 2024, 1, 1 >> ],
         [ staff_id |-> 1, sale_amount |-> 4000, sale_date |-> << 2024, 1, 20 >> ],
         [ staff_id |-> 2, sale_amount |-> 9000, sale_date |-> << 2024, 1, 20 >> ] >> }

TargetAmounts == { -5000, 0, 5000, 10000 }
IncentivePercentages == { 0, 5, 10 }

TargetScenarios ==
    { << [ staff_id |-> 1, target_type |-> "monthly", total_target_amount |-> amount,
           period_start |-> << 2024, 1, 1 >>, period_end |-> << 2024, 2, 29 >>,
           incentive_percentage |-> percentage ] >> :
      amount \in TargetAmounts, percentage \in IncentivePercentages }

InitTarget ==
    /\ staff = StaffRows
    /\ attendance = AttendanceRows
    /\ sales \in SalesScenarios
    /\ targets \in TargetScenarios
    /\ InitWritten
    /\ InitRuns

NextTarget == Payroll(1)

SpecTarget == InitTarget /\ [][NextTarget]_vars

\* ---- pay basis: runs of two months under changing attendance
\* check_in inserting a row whatever is stored for the day
check_in_always_inserting(r, staff_id, today) ==
    /\ staff_id \in DOMAIN staff
    /\ \A q \in Requests : pc[q] = "idle"
    /\ attendance' = Append(attendance,
          [ staff_id |-> staff_id, date |-> today, status |-> "present",
            check_in_time |-> Some("set"), check_out_time |-> None ])
    /\ response' = [ response EXCEPT ![r] = Success ]
    /\ UNCHANGED << staff, sales, targets, tables, pc, call, loc, nruns >>

\* POST /attendance/check-in of staff_id on the day today: refused if the
\* day's row has a check-in time; a row without one is updated; without a row
\* one is inserted
check_in(r, staff_id, today) ==
    LET existing == { i \in DOMAIN attendance :
                        attendance[i].staff_id = staff_id /\ attendance[i].date = today }
    IN
    /\ staff_id \in DOMAIN staff
    /\ \A q \in Requests : pc[q] = "idle"
    /\ IF existing = {}
       THEN /\ attendance' = Append(attendance,
                  [ staff_id |-> staff_id, date |-> today, status |-> "present",
                    check_in_time |-> Some("set"), check_out_time |-> None ])
            /\ response' = [ response EXCEPT ![r] = Success ]
       ELSE \E i \in existing :
              IF attendance[i].check_in_time # None
              THEN /\ response' = [ response EXCEPT ![r] = Failure("AlreadyCheckedIn") ]
                   /\ UNCHANGED attendance
              ELSE /\ attendance' = [ attendance EXCEPT
                         ![i].check_in_time = Some("set"),
                         ![i].status = "present" ]
                   /\ response' = [ response EXCEPT ![r] = Success ]
    /\ UNCHANGED << staff, sales, targets, tables, pc, call, loc, nruns >>

\* POST /attendance/check-out of staff_id on the day today: refused without a
\* row for the day and if the row has a check-out time
check_out(r, staff_id, today) ==
    LET existing == { i \in DOMAIN attendance :
                        attendance[i].staff_id = staff_id /\ attendance[i].date = today }
    IN
    /\ staff_id \in DOMAIN staff
    /\ \A q \in Requests : pc[q] = "idle"
    /\ IF existing = {}
       THEN /\ response' = [ response EXCEPT ![r] = Failure("NoCheckIn") ]
            /\ UNCHANGED attendance
       ELSE \E i \in existing :
              IF attendance[i].check_out_time # None
              THEN /\ response' = [ response EXCEPT ![r] = Failure("AlreadyCheckedOut") ]
                   /\ UNCHANGED attendance
              ELSE /\ attendance' = [ attendance EXCEPT
                         ![i].check_out_time = Some("set") ]
                   /\ response' = [ response EXCEPT ![r] = Success ]
    /\ UNCHANGED << staff, sales, targets, tables, pc, call, loc, nruns >>

\* the day of the check-ins
CheckInDates == { << 2024, 1, 4 >> }

CheckIn == \E staff_id \in DOMAIN staff, today \in CheckInDates : check_in(1, staff_id, today)

\* staff 1 present on each of the 30 days of April 2024
AprilAttendanceRows ==
    [ day \in 1..DaysInMonth(2024, 4) |->
        [ staff_id |-> 1, date |-> << 2024, 4, day >>, status |-> "present",
          check_in_time |-> Some("set"), check_out_time |-> Some("set") ] ]

\* staff 1 sold 2000 in April 2024
AprilSalesRows ==
    << [ staff_id |-> 1, sale_amount |-> 2000, sale_date |-> << 2024, 4, 10 >> ] >>

InitPay ==
    /\ staff = StaffRows
    /\ attendance = AttendanceRows \o AprilAttendanceRows
    /\ sales = SalesRows \o AprilSalesRows
    /\ targets = TargetRows
    /\ achievements = << >>
    /\ advances = << new_advance(1, 5000, "partial", Some(1000)) >>
    /\ salary = << >>
    /\ ledgerHist = << [ m \in AllMonthYears |-> 0 ] >>
    /\ InitRuns

PayPayroll(r) ==
    \/ \E staff_id \in RequestStaffIds, month_year \in PayMonthYears :
          generate_salary_record(r, staff_id, month_year)
    \/ \E month_year \in PayMonthYears : calculate_all_salaries(r, month_year)
    \/ calculate_salary(r)
    \/ calculate_advance_deduction(r)
    \/ save_salary_record(r)
    \/ raise_error(r)

NextPay == CheckIn \/ PayPayroll(1)

SpecPay == InitPay /\ [][NextPay]_vars

\* ---- batch runs: the batch of the calculator and the batch the admin
\* route reaches, over a staff table with an inactive member
BatchStaffRows ==
    StaffRows @@
    (4 :> [ basic_salary |-> 12000, incentive_percentage |-> 0, is_active |-> FALSE ])

\* GET /salary/calculate/{month_year} up to the call of the service: the
\* month_year is well formed; the request is refused if some Salary row of
\* the month exists
calculate_salaries(r, month_year) ==
    /\ pc[r] = "idle"
    /\ nruns < MaxRuns
    /\ nruns' = nruns + 1
    /\ IF \E i \in DOMAIN salary : salary[i].month_year = month_year
       THEN /\ response' = [ response EXCEPT ![r] =
                  [ status |-> "error", error |-> "AlreadyCalculated", records |-> << >> ] ]
            /\ UNCHANGED << pc, call >>
       ELSE /\ pc' = [ pc EXCEPT ![r] = "service" ]
            /\ call' = [ call EXCEPT ![r] =
                  [ kind |-> "route", month_year |-> month_year,
                    queue |-> << >>, created |-> << >>, errors |-> << >> ] ]
            /\ response' = [ response EXCEPT ![r] = NoResponse ]
    /\ UNCHANGED << inputs, tables, loc >>

\* SalaryService.calculate_all_salaries as the route calls it: with no active
\* staff the loop body never runs; otherwise its first iteration calls
\* self.calculate_staff_salary, which SalaryService does not define, and the
\* AttributeError is caught by the method's except clause, which returns []
service_calculate_all_salaries(r) ==
    LET staff_members == ActiveStaff(staff, DOMAIN staff)
        salary_records == IF staff_members = << >> THEN << >> ELSE << >>
    IN
    /\ pc[r] = "service"
    /\ pc' = [ pc EXCEPT ![r] = "idle" ]
    /\ call' = [ call EXCEPT ![r] = IdleCall ]
    /\ response' = [ response EXCEPT ![r] =
          [ status |-> "ok", error |-> "", records |-> salary_records ] ]
    /\ UNCHANGED << inputs, tables, loc, nruns >>

InitBatch ==
    /\ staff = BatchStaffRows
    /\ attendance = AttendanceRows
    /\ sales = SalesRows
    /\ targets = TargetRows
    /\ InitWritten
    /\ InitRuns

NextBatch ==
    \/ Payroll(1)
    \/ \E month_year \in MonthYears : calculate_salaries(1, month_year)
    \/ service_calculate_all_salaries(1)

SpecBatch == InitBatch /\ [][NextBatch]_vars

\* ---- payment of salary records
\* ids a caller of the payment operations may name; the last is the id of no
\* Salary row
SalaryIds == 1..(MaxRuns + 2)

\* approve_salary without the check of the current status
approve_salary_unchecked(r, salary_id) ==
    /\ pc[r] = "idle"
    /\ IF salary_id \notin DOMAIN salary
       THEN /\ response' = [ response EXCEPT ![r] = Failure("NotFound") ]
            /\ UNCHANGED salary
       ELSE /\ salary' = [ salary EXCEPT ![salary_id].payment_status = "approved" ]
            /\ response' = [ response EXCEPT ![r] = Success ]
    /\ UNCHANGED << inputs, achievements, advances, ledgerHist, pc, call, loc, nruns >>

\* SalaryService.approve_salary
approve_salary(r, salary_id) ==
    /\ pc[r] = "idle"
    /\ IF salary_id \notin DOMAIN salary
       THEN /\ response' = [ response EXCEPT ![r] = Failure("NotFound") ]
            /\ UNCHANGED salary
       ELSE IF salary[salary_id].payment_status # "pending"
       THEN /\ response' = [ response EXCEPT ![r] = Failure("NotPending") ]
            /\ UNCHANGED salary
       ELSE /\ salary' = [ salary EXCEPT ![salary_id].payment_status = "approved" ]
            /\ response' = [ response EXCEPT ![r] = Success ]
    /\ UNCHANGED << inputs, achievements, advances, ledgerHist, pc, call, loc, nruns >>

\* SalaryService.pay_salary
pay_salary(r, salary_id) ==
    /\ pc[r] = "idle"
    /\ IF salary_id \notin DOMAIN salary
       THEN /\ response' = [ response EXCEPT ![r] = Failure("NotFound") ]
            /\ UNCHANGED salary
       ELSE IF salary[salary_id].payment_status \notin { "approved", "pending" }
       THEN /\ response' = [ response EXCEPT ![r] = Failure("NotApprovedOrPending") ]
            /\ UNCHANGED salary
       ELSE /\ salary' = [ salary EXCEPT
                  ![salary_id].payment_status = "paid",
                  ![salary_id].payment_date = Some("set") ]
            /\ response' = [ response EXCEPT ![r] = Success ]
    /\ UNCHANGED << inputs, achievements, advances, ledgerHist, pc, call, loc, nruns >>

\* bulk_approve_salary without the filter on the month
bulk_approve_salary_of_all_months(r, month_year) ==
    LET pending_salaries == { i \in DOMAIN salary : salary[i].payment_status = "pending" }
    IN
    /\ pc[r] = "idle"
    /\ salary' = [ i \in DOMAIN salary |->
          IF i \in pending_salaries
          THEN [ salary[i] EXCEPT !.payment_status = "approved" ] ELSE salary[i] ]
    /\ response' = [ response EXCEPT ![r] = Success ]
    /\ UNCHANGED << inputs, achievements, advances, ledgerHist, pc, call, loc, nruns >>

\* SalaryService.bulk_approve_salary
bulk_approve_salary(r, month_year) ==
    LET pending_salaries ==
            { i \in DOMAIN salary :
                salary[i].month_year = month_year /\ salary[i].payment_status = "pending" }
    IN
    /\ pc[r] = "idle"
    /\ salary' = [ i \in DOMAIN salary |->
          IF i \in pending_salaries
          THEN [ salary[i] EXCEPT !.payment_status = "approved" ] ELSE salary[i] ]
    /\ response' = [ response EXCEPT ![r] = Success ]
    /\ UNCHANGED << inputs, achievements, advances, ledgerHist, pc, call, loc, nruns >>

\* POST /salary/approve: month_year is optional, None approves the pending
\* records of every month
approve_salaries(r, month_year) ==
    LET pending_salaries ==
            { i \in DOMAIN salary :
                /\ salary[i].payment_status = "pending"
                /\ month_year # None => salary[i].month_year = month_year[1] }
    IN
    /\ pc[r] = "idle"
    /\ IF pending_salaries = {}
       THEN /\ response' = [ response EXCEPT ![r] = Failure("NoPendingSalaries") ]
            /\ UNCHANGED salary
       ELSE /\ salary' = [ i \in DOMAIN salary |->
                  IF i \in pending_salaries
                  THEN [ salary[i] EXCEPT !.payment_status = "approved" ] ELSE salary[i] ]
            /\ response' = [ response EXCEPT ![r] = Success ]
    /\ UNCHANGED << inputs, achievements, advances, ledgerHist, pc, call, loc, nruns >>

Payment(r) ==
    \/ \E salary_id \in SalaryIds : approve_salary(r, salary_id)
    \/ \E salary_id \in SalaryIds : pay_salary(r, salary_id)
    \/ \E month_year \in MonthYears : bulk_approve_salary(r, month_year)
    \/ \E month_year \in { None } \cup { Some(m) : m \in MonthYears } :
          approve_salaries(r, month_year)

\* the Salary table after staff 2 was paid for January 2024: the row of that
\* run, marked paid by pay_salary
PaidSalaryRows ==
    << [ staff_id |-> 2, month_year |-> "2024-01", basic_salary |-> 15000,
         working_days |-> 27, present_days |-> 0, sunday_count |-> 4,
         salary_for_days |-> 13500, target_incentive |-> 0, basic_incentive |-> 0,
         gross_salary |-> 15500, advance_deduction |-> 0, net_salary |-> 15500,
         payment_status |-> "paid", payment_date |-> Some("set") ] >>

InitPayment ==
    /\ staff = StaffRows
    /\ attendance = AttendanceRows
    /\ sales = SalesRows
    /\ targets = TargetRows
    /\ achievements = << >>
    /\ advances = << >>
    /\ salary = PaidSalaryRows
    /\ ledgerHist = << >>
    /\ InitRuns

NextPayment == Payroll(1) \/ Payment(1)

SpecPayment == InitPayment /\ [][NextPayment]_vars

\* ---- the other operations on advances
\* ids a caller of the advance operations may name; the last is the id of no
\* Advances row
AdvanceIds == 1..(MaxAdvances + 1)

\* request bodies (AdvanceUpdate) of the update route: each field optional
AdvanceUpdates ==
    { [ deduction_plan |-> Some("full"), monthly_deduction_amount |-> None,
        status |-> None ],
      [ deduction_plan |-> None, monthly_deduction_amount |-> Some(500),
        status |-> Some("active") ] }

\* update_advance_deduction applying every field the body sets, status too
update_advance_applying_status(r, advance_id, deduction_data) ==
    /\ pc[r] = "idle"
    /\ IF advance_id \notin DOMAIN advances
       THEN /\ response' = [ response EXCEPT ![r] = Failure("NotFound") ]
            /\ UNCHANGED advances
       ELSE /\ advances' = [ advances EXCEPT
                  ![advance_id].deduction_plan =
                      IF deduction_data.deduction_plan # None
                      THEN deduction_data.deduction_plan[1] ELSE @,
                  ![advance_id].monthly_deduction_amount =
                      IF deduction_data.monthly_deduction_amount # None
                      THEN deduction_data.monthly_deduction_amount ELSE @,
                  ![advance_id].status =
                      IF deduction_data.status # None
                      THEN deduction_data.status[1] ELSE @ ]
            /\ response' = [ response EXCEPT ![r] = Success ]
    /\ UNCHANGED << inputs, achievements, salary, ledgerHist, pc, call, loc, nruns >>

\* PUT /advance/update-deduction/{advance_id}: deduction_data is an
\* AdvanceUpdate, a pydantic model, which has no method get; the first
\* assignment raises AttributeError before any attribute is set
update_advance_deduction(r, advance_id, deduction_data) ==
    /\ pc[r] = "idle"
    /\ IF advance_id \notin DOMAIN advances
       THEN response' = [ response EXCEPT ![r] = Failure("NotFound") ]
       ELSE response' = [ response EXCEPT ![r] = Failure("AttributeError") ]
    /\ UNCHANGED << inputs, tables, pc, call, loc, nruns >>

\* DELETE /advance/delete/{advance_id}: the 404 for an unknown id is raised
\* inside the try and caught by its except clause; for a known id the
\* comparison with AdvanceStatus.COMPLETED, which the enum does not define,
\* raises AttributeError, caught alike; both end in the 500 of the clause
delete_advance(r, advance_id) ==
    /\ pc[r] = "idle"
    /\ response' = [ response EXCEPT ![r] = Failure("FailedToDelete") ]
    /\ UNCHANGED << inputs, tables, pc, call, loc, nruns >>

\* AdvanceService.approve_advance and AdvanceService.reject_advance, which
\* differ in the status they would set: only an advance in status pending
\* passes the check, and setting a status the AdvanceStatus enum does not
\* define fails at the commit, which the except clause rolls back
approve_or_reject_advance(r, advance_id) ==
    /\ pc[r] = "idle"
    /\ IF advance_id \notin DOMAIN advances
       THEN response' = [ response EXCEPT ![r] = Failure("NotFound") ]
       ELSE IF advances[advance_id].status # "pending"
       THEN response' = [ response EXCEPT ![r] = Failure("NotPending") ]
       ELSE response' = [ response EXCEPT ![r] = Failure("LookupError") ]
    /\ UNCHANGED << inputs, tables, pc, call, loc, nruns >>

\* AdvanceService.create_advance: Advances has no column deduction_periods,
\* its constructor raises TypeError and the except clause returns the failure
create_advance(r, staff_id) ==
    /\ pc[r] = "idle"
    /\ IF staff_id \notin DOMAIN staff
       THEN response' = [ response EXCEPT ![r] = Failure("NotFound") ]
       ELSE response' = [ response EXCEPT ![r] = Failure("TypeError") ]
    /\ UNCHANGED << inputs, tables, pc, call, loc, nruns >>

AdvanceAdmin(r) ==
    \/ \E advance_id \in AdvanceIds, deduction_data \in AdvanceUpdates :
          update_advance_deduction(r, advance_id, deduction_data)
    \/ \E advance_id \in AdvanceIds : delete_advance(r, advance_id)
    \/ \E advance_id \in AdvanceIds : approve_or_reject_advance(r, advance_id)
    \/ \E staff_id \in RequestStaffIds : create_advance(r, staff_id)

\* single-staff runs for January 2024 that do not fail
AdvancePayroll(r) ==
    \/ \E staff_id \in DOMAIN staff : generate_salary_record(r, staff_id, "2024-01")
    \/ calculate_salary(r)
    \/ calculate_advance_deduction(r)
    \/ save_salary_record(r)

NextAdvance ==
    \/ pc[1] = "idle" /\ IssueAdvance
    \/ AdvancePayroll(1)
    \/ AdvanceAdmin(1)

SpecAdvance == Init /\ [][NextAdvance]_vars

\* ---- the calendar figures on their own
\* d + timedelta(days=1)
NextDay(d) ==
    IF d[3] < DaysInMonth(d[1], d[2]) THEN << d[1], d[2], d[3] + 1 >>
    ELSE IF d[2] < 12 THEN << d[1], d[2] + 1, 1 >>
    ELSE << d[1] + 1, 1, 1 >>

\* d - timedelta(days=1)
PrevDay(d) ==
    IF d[3] > 1 THEN << d[1], d[2], d[3] - 1 >>
    ELSE IF d[2] > 1 THEN << d[1], d[2] - 1, DaysInMonth(d[1], d[2] - 1) >>
    ELSE << d[1] - 1, 12, 31 >>

\* start_date and end_date as SalaryService.calculate_salary forms them
service_start_date(year, month) == << year, month, 1 >>
service_end_date(year, month) ==
    IF month = 12 THEN PrevDay(<< year + 1, 1, 1 >>)
    ELSE PrevDay(<< year, month + 1, 1 >>)

\* SalaryService._calculate_working_days: the loop over the dates
RECURSIVE service_calculate_working_days(_, _)
service_calculate_working_days(start_date, end_date) ==
    IF ~ DateLE(start_date, end_date) THEN 0
    ELSE (IF Weekday(start_date[1], start_date[2], start_date[3]) # 6 THEN 1 ELSE 0)
         + service_calculate_working_days(NextDay(start_date), end_date)

\* SalaryService._count_sundays: the loop over the dates
RECURSIVE service_count_sundays(_, _)
service_count_sundays(start_date, end_date) ==
    IF ~ DateLE(start_date, end_date) THEN 0
    ELSE (IF Weekday(start_date[1], start_date[2], start_date[3]) = 6 THEN 1 ELSE 0)
         + service_count_sundays(NextDay(start_date), end_date)

\* years of the calendar calls: century years that are and are not leap
\* years, and the years around the stored data
CalendarYears == { 1900, 2000 } \cup (2023..2025)
CalendarMonths == 1..12

\* the call record of a calendar call
CalendarCall(kind, staff_id, year, month) ==
    [ kind |-> kind, month_year |-> "", queue |-> << staff_id >>, created |-> << >>,
      errors |-> << >>, year |-> year, month |-> month ]

\* the calculator's calendar figures for (year, month), as calculate_salary
\* obtains them for staff_id
calendar_figures(r, staff_id, year, month) ==
    /\ pc[r] = "idle"
    /\ call' = [ call EXCEPT ![r] = CalendarCall("calendar", staff_id, year, month) ]
    /\ loc' = [ loc EXCEPT ![r] =
          [ NoLocals EXCEPT
              !.working_days = get_working_days(year, month),
              !.sunday_count = get_sunday_count(year, month) ] ]
    /\ UNCHANGED << inputs, tables, pc, response, nruns >>

\* the service's calendar figures for (year, month), as
\* SalaryService.calculate_salary obtains them for staff_id
service_calendar_figures(r, staff_id, year, month) ==
    LET start_date == service_start_date(year, month)
        end_date == service_end_date(year, month)
    IN
    /\ pc[r] = "idle"
    /\ call' = [ call EXCEPT ![r] =
          CalendarCall("service_calendar", staff_id, year, month) ]
    /\ loc' = [ loc EXCEPT ![r] =
          [ NoLocals EXCEPT
              !.working_days = service_calculate_working_days(start_date, end_date),
              !.sunday_count = service_count_sundays(start_date, end_date) ] ]
    /\ UNCHANGED << inputs, tables, pc, response, nruns >>

InitCalendar ==
    /\ staff = StaffRows
    /\ attendance \in { << >>, AttendanceRows }
    /\ sales = SalesRows
    /\ targets = TargetRows
    /\ InitWritten
    /\ InitRuns

NextCalendar ==
    \/ \E staff_id \in RequestStaffIds, year \in CalendarYears, month \in CalendarMonths :
          calendar_figures(1, staff_id, year, month)
    \/ \E staff_id \in RequestStaffIds, year \in CalendarYears, month \in CalendarMonths :
          service_calendar_figures(1, staff_id, year, month)

SpecCalendar == InitCalendar /\ [][NextCalendar]_vars

\* ---- the operations on targets
\* ids a caller of the target operations may name; the last is the id of no
\* Targets row
TargetIds == 1..(MaxTargets + 1)

\* request bodies (TargetCreate) the admin sends: for staff 1, monthly or
\* quarterly, over mid January to mid February 2024 or over March 2024, and
\* for staff 3, who does not exist
TargetRequests ==
    { [ staff_id |-> body[1], target_type |-> body[2],
        total_target_amount |-> 10000,
        period_start |-> body[3], period_end |-> body[4],
        incentive_percentage |-> 5 ] :
      body \in { << 1, "monthly", << 2024, 1, 15 >>, << 2024, 2, 15 >> >>,
                 << 1, "monthly", << 2024, 3, 1 >>, << 2024, 3, 31 >> >>,
                 << 1, "quarterly", << 2024, 1, 15 >>, << 2024, 2, 15 >> >>,
                 << 3, "monthly", << 2024, 3, 1 >>, << 2024, 3, 31 >> >> } }

\* POST /targets/set: the staff member has to exist, nothing else is checked
set_target(r, target_data) ==
    /\ pc[r] = "idle"
    /\ Len(targets) < MaxTargets
    /\ IF target_data.staff_id \notin DOMAIN staff
       THEN /\ response' = [ response EXCEPT ![r] = Failure("NotFound") ]
            /\ UNCHANGED targets
       ELSE /\ targets' = Append(targets, target_data)
            /\ response' = [ response EXCEPT ![r] = Success ]
    /\ UNCHANGED << staff, attendance, sales, tables, pc, call, loc, nruns >>

\* PUT /targets/update/{target_id}: the target has to exist, every field is
\* overwritten with the body's
update_target(r, target_id, target_data) ==
    /\ pc[r] = "idle"
    /\ IF target_id \notin DOMAIN targets
       THEN /\ response' = [ response EXCEPT ![r] = Failure("NotFound") ]
            /\ UNCHANGED targets
       ELSE /\ targets' = [ targets EXCEPT ![target_id] = target_data ]
            /\ response' = [ response EXCEPT ![r] = Success ]
    /\ UNCHANGED << staff, attendance, sales, tables, pc, call, loc, nruns >>

\* TargetService.create_target: its overlap query names Targets.target_period,
\* Targets.start_date and Targets.end_date, which Targets does not define; the
\* AttributeError is caught by the except clause, which returns the failure
create_target(r, target_data) ==
    /\ pc[r] = "idle"
    /\ IF target_data.staff_id \notin DOMAIN staff
       THEN response' = [ response EXCEPT ![r] = Failure("NotFound") ]
       ELSE response' = [ response EXCEPT ![r] = Failure("AttributeError") ]
    /\ UNCHANGED << inputs, tables, pc, call, loc, nruns >>

\* TargetService.update_target: the names it assigns (target_amount,
\* target_period, start_date, end_date, description, status, updated_at) are
\* not columns of Targets, so the commit writes nothing
service_update_target(r, target_id) ==
    /\ pc[r] = "idle"
    /\ IF target_id \notin DOMAIN targets
       THEN response' = [ response EXCEPT ![r] = Failure("NotFound") ]
       ELSE response' = [ response EXCEPT ![r] = Success ]
    /\ UNCHANGED << inputs, tables, pc, call, loc, nruns >>

NextTargetAdmin ==
    \/ \E target_data \in TargetRequests : set_target(1, target_data)
    \/ \E target_id \in TargetIds, target_data \in TargetRequests :
          update_target(1, target_id, target_data)
    \/ \E target_data \in TargetRequests : create_target(1, target_data)
    \/ \E target_id \in TargetIds : service_update_target(1, target_id)

SpecTargetAdmin == Init /\ [][NextTargetAdmin]_vars

\* ---- payroll for successive months against advances that were issued
\* the advances table after one or two calls of issue_advance for staff 1
IssuedAdvances ==
    LET rows == { new_advance(body[1], body[2], body[3], body[4]) :
                    body \in { b \in AdvanceRequests : b[1] = 1 } }
    IN  { << a >> : a \in rows } \cup { << a, b >> : a \in rows, b \in rows }

InitClearance ==
    /\ staff = StaffRows
    /\ attendance = AttendanceRows
    /\ sales = SalesRows
    /\ targets = TargetRows
    /\ achievements = << >>
    /\ advances \in IssuedAdvances
    /\ salary = << >>
    /\ ledgerHist = [ i \in DOMAIN advances |-> [ m \in AllMonthYears |-> 0 ] ]
    /\ InitRuns

\* the months of the runs, in their order
SuccessiveMonths == << "2024-01", "2024-02" >>

\* the payroll of staff 1 is run for the first month that has no SalaryRecord
\* of staff 1 yet; no transaction fails
ClearancePayroll(r) ==
    \/ \E k \in DOMAIN SuccessiveMonths :
          /\ \A j \in 1..(k - 1) : HasSalary(1, SuccessiveMonths[j])
          /\ ~ HasSalary(1, SuccessiveMonths[k])
          /\ generate_salary_record(r, 1, SuccessiveMonths[k])
    \/ calculate_salary(r)
    \/ calculate_advance_deduction(r)
    \/ save_salary_record(r)

NextClearance == ClearancePayroll(1)

\* a month's payroll that can be run is run, and a run that has started is
\* carried through
SpecClearance == InitClearance /\ [][NextClearance]_vars /\ WF_vars(NextClearance)

\* ---- check-ins and check-outs
\* the days of the calls: 3 January 2024, for which staff 1 has checked in
\* and out, 4 January, for which staff 1 has a row without a check-in, and 5
\* January, for which nobody has a row
AttendanceDates == { << 2024, 1, 3 >>, << 2024, 1, 4 >>, << 2024, 1, 5 >> }

NextAttendance ==
    \/ \E staff_id \in DOMAIN staff, today \in AttendanceDates :
          check_in(1, staff_id, today)
    \/ \E staff_id \in DOMAIN staff, today \in AttendanceDates :
          check_out(1, staff_id, today)

SpecAttendance == Init /\ [][NextAttendance]_vars

TypeOK ==
    /\ \A r \in Requests : pc[r] \in { "idle", "calc", "ledger", "persist", "service" }
    /\ Len(advances) <= MaxAdvances
    /\ Len(ledgerHist) = Len(advances)
    /\ nruns \in 0..MaxRuns

\* ------------------------------------------------------------------ claims
\* the Salary rows stored for (staff_id, month_year)
SalaryRowsFor(staff_id, month_year) ==
    { i \in DOMAIN salary :
        salary[i].staff_id = staff_id /\ salary[i].month_year = month_year }

\* request r is running the payroll of (staff_id, month_year)
InFlight(r, staff_id, month_year) ==
    /\ pc[r] # "idle"
    /\ call[r].month_year = month_year
    /\ Head(call[r].queue) = staff_id

\* the step is the advance ledger transaction of request r
LedgerStepOf(r) == pc[r] = "ledger" /\ pc'[r] = "persist"

RECURSIVE SumOver(_, _)
SumOver(f, keys) ==
    IF keys = {} THEN 0
    ELSE LET k == CHOOSE x \in keys : TRUE
         IN  f[k] + SumOver(f, keys \ { k })

\* how often runs, of any month, have deducted advance i
TimesDeducted(i) == SumOver(ledgerHist[i], AllMonthYears)

\* C1 (idempotence guard): a single-staff call for a (staff, month) whose
\* SalaryRecord exists is rejected with AlreadyComputed when it is taken up,
\* and no step leaves two SalaryRecords for one (staff, month_year).
C1_IdempotenceGuard ==
    [][ /\ \A r \in Requests :
             ( /\ pc[r] = "calc" /\ pc'[r] # "calc"
               /\ call[r].kind = "single"
               /\ HasSalary(Head(call[r].queue), call[r].month_year) )
             => ( /\ pc'[r] = "idle"
                  /\ response'[r].status = "error"
                  /\ response'[r].error = "AlreadyComputed"
                  /\ salary' = salary )
        /\ \A i, j \in DOMAIN salary' :
             ( /\ salary'[i].staff_id = salary'[j].staff_id
               /\ salary'[i].month_year = salary'[j].month_year ) => i = j
      ]_vars

C3_SingleDeductionPerMonth ==
    [][ \A r \in Requests :
          ( /\ LedgerStepOf(r)
            /\ HasSalary(Head(call[r].queue), call[r].month_year) )
          => advances' = advances
      ]_vars

\* C4 (atomic single-staff run): once no run for (staff, month) is in
\* progress, an advance that a run for (staff, month) deducted, and an
\* Achievement a run for (staff, month) wrote, come with a SalaryRecord for
\* that (staff, month).
C4_AtomicRun ==
    /\ \A i \in DOMAIN advances : \A month_year \in MonthYears :
         ( /\ ledgerHist[i][month_year] > 0
           /\ \A r \in Requests : ~ InFlight(r, advances[i].staff_id, month_year) )
         => HasSalary(advances[i].staff_id, month_year)
    /\ \A k \in DOMAIN achievements :
         ( \A r \in Requests :
              ~ InFlight(r, achievements[k].staff_id, achievements[k].period) )
         => HasSalary(achievements[k].staff_id, achievements[k].period)

\* C5 (no concurrent double execution): when every request arrives before the
\* SalaryRecord it asks for exists, however the requests interleave, at most
\* one SalaryRecord is written per (staff, month) and no advance is deducted
\* twice for one month.
C5_NoConcurrentDoubleExecution ==
    /\ \A staff_id \in DOMAIN staff : \A month_year \in MonthYears :
         Cardinality(SalaryRowsFor(staff_id, month_year)) <= 1
    /\ \A i \in DOMAIN ledgerHist : \A month_year \in MonthYears :
         ledgerHist[i][month_year] <= 1

\* C6 (full-plan single shot): the ledger transaction of a run leaves every
\* active full-plan advance of its staff member cleared with remaining_amount
\* 0, having deducted exactly the previous remaining_amount.
C6_FullPlanSingleShot ==
    [][ \A r \in Requests : LedgerStepOf(r) =>
          \A i \in DOMAIN advances :
            ( /\ advances[i].staff_id = Head(call[r].queue)
              /\ advances[i].status = "active"
              /\ advances[i].deduction_plan = "full" )
            => ( /\ advances'[i].status = "cleared"
                 /\ advances'[i].remaining_amount = 0
                 /\ advances'[i].total_deducted - advances[i].total_deducted
                       = advances[i].remaining_amount )
      ]_vars

\* a full-plan advance of 1500 cleared by the one run that processed it
C6_Witness ==
    \E i \in DOMAIN advances :
        /\ advances[i].deduction_plan = "full"
        /\ advances[i].status = "cleared"
        /\ advances[i].remaining_amount = 0
        /\ advances[i].total_deducted = 1500
        /\ TimesDeducted(i) = 1

\* C7 (partial-plan monotonic decrease): the ledger transaction of a run
\* decreases the remaining_amount of every active partial-plan advance of its
\* staff member that has a monthly deduction amount D by min(D, previous
\* remaining_amount), and leaves it cleared exactly if remaining_amount is
\* then 0.
C7_PartialPlanDecrease ==
    [][ \A r \in Requests : LedgerStepOf(r) =>
          \A i \in DOMAIN advances :
            ( /\ advances[i].staff_id = Head(call[r].queue)
              /\ advances[i].status = "active"
              /\ advances[i].deduction_plan = "partial"
              /\ advances[i].monthly_deduction_amount # None
              /\ advances[i].monthly_deduction_amount[1] # 0 )
            => LET D == advances[i].monthly_deduction_amount[1]
                   previous == advances[i].remaining_amount
               IN  /\ advances'[i].remaining_amount
                         = previous - (IF D <= previous THEN D ELSE previous)
                   /\ advances'[i].status = "cleared"
                         <=> advances'[i].remaining_amount = 0
                   /\ advances'[i].status \in { "active", "cleared" }
      ]_vars

\* a partial advance of 1500 with D = 1000: still active with 500 left after
\* its first run (1000 deducted), and another one cleared by its second run
\* (min(1000, 500) = 500 deducted)
C7_Witness ==
    \E i \in DOMAIN advances :
        /\ advances[i].deduction_plan = "partial"
        /\ advances[i].monthly_deduction_amount = Some(1000)
        /\ advances[i].advance_amount = 1500
        /\ advances[i].status = "cleared"
        /\ advances[i].remaining_amount = 0
        /\ TimesDeducted(i) = 2

\* C8 (balance bounds): in every reachable state every CashAdvance has
\* 0 <= remaining_amount <= advance_amount - total_deducted.
C8_BalanceBounds ==
    \A i \in DOMAIN advances :
        /\ advances[i].remaining_amount >= 0
        /\ advances[i].remaining_amount
              <= advances[i].advance_amount - advances[i].total_deducted

PolicyIncentive(T, p, S) == IF S >= T THEN (T * p) \div 100 ELSE (S * p) \div 100

TargetStepOf(r) == pc[r] = "calc" /\ pc'[r] = "ledger"

\* target t is of kind monthly, belongs to staff_id and its period contains
\* the whole month
CoversMonth(t, staff_id, month_year) ==
    LET year == ParseMonthYear(month_year)[1]
        month == ParseMonthYear(month_year)[2]
    IN  /\ targets[t].staff_id = staff_id
        /\ targets[t].target_type = "monthly"
        /\ DateLE(targets[t].period_start, << year, month, 1 >>)
        /\ DateLE(<< year, month, DaysInMonth(year, month) >>, targets[t].period_end)

\* C11 (no-target case): the target evaluation of a run writes an Achievement
\* only for a monthly target of the staff member whose period contains the
\* whole month; when there is no such target the run's target_incentive is 0
\* and the Achievement records are unchanged.
C11_NoTargetCase ==
    [][ \A r \in Requests : TargetStepOf(r) =>
          LET staff_id == Head(call[r].queue)
              month_year == call[r].month_year
          IN  /\ achievements' # achievements =>
                   /\ Len(achievements') = Len(achievements) + 1
                   /\ CoversMonth(achievements'[Len(achievements')].target_id,
                                  staff_id, month_year)
              /\ (\A t \in DOMAIN targets : ~ CoversMonth(t, staff_id, month_year)) =>
                   /\ loc'[r].target_incentive = 0
                   /\ achievements' = achievements
      ]_vars

\* staff 2, with sales in January, a quarterly target over January and a
\* monthly target from mid January, was paid for January without a target
\* incentive and without an Achievement
C11_Witness ==
    /\ \E i \in DOMAIN salary :
         /\ salary[i].staff_id = 2
         /\ salary[i].month_year = "2024-01"
         /\ salary[i].target_incentive = 0
    /\ \A k \in DOMAIN achievements : achievements[k].staff_id # 2

\* the number of days of the month that are not Sundays
NonSundays(month_year) ==
    LET year == ParseMonthYear(month_year)[1]
        month == ParseMonthYear(month_year)[2]
    IN  Cardinality({ day \in 1..DaysInMonth(year, month) :
                        Weekday(year, month, day) \in 0..5 })

ScenarioRecord(i) ==
    /\ salary[i].staff_id = 1
    /\ salary[i].month_year = "2024-04"
    /\ salary[i].basic_salary = 30000
    /\ salary[i].present_days = 30

\* the partial advance of 5000 with a monthly amount of 1000 has been
\* processed by one run, and that run was for April 2024
ScenarioAdvanceRunOnce ==
    /\ advances[1].advance_amount = 5000
    /\ TimesDeducted(1) = 1
    /\ ledgerHist[1]["2024-04"] = 1

Range(seq) == { seq[k] : k \in DOMAIN seq }

\* the step is the return of a batch call of request r: of the calculator's
\* batch or of the batch the admin route runs
BatchReturnOf(r) ==
    /\ call[r].kind \in { "batch", "route" }
    /\ pc[r] # "idle"
    /\ pc'[r] = "idle"

\* C14 (batch isolation): a batch is started for exactly the active staff
\* members; when it returns, every active staff member whose own run did not
\* fail has a SalaryRecord of the month among the returned records, and the
\* returned records are records of the month of active staff members.
C14_BatchIsolation ==
    [][ \A r \in Requests :
          /\ ( pc[r] = "idle" /\ call'[r].kind = "batch" ) =>
                \A s \in DOMAIN staff :
                    s \in Range(call'[r].queue) <=> staff[s].is_active
          /\ BatchReturnOf(r) =>
                /\ response'[r].status = "ok"
                /\ \A s \in DOMAIN staff : staff[s].is_active =>
                      \/ \E k \in Range(response'[r].records) :
                            /\ salary'[k].staff_id = s
                            /\ salary'[k].month_year = call[r].month_year
                      \/ s \in Range(call[r].errors)
                      \/ /\ call[r].kind = "batch"
                         /\ s = Head(call[r].queue)
                         /\ salary' = salary
                /\ \A k \in Range(response'[r].records) :
                      /\ k \in DOMAIN salary'
                      /\ salary'[k].month_year = call[r].month_year
                      /\ staff[salary'[k].staff_id].is_active
      ]_vars

\* C15 as stated: a SalaryRecord is created pending and its status only moves
\* pending -> approved and approved -> paid.
C15_PaymentStateMachineAsStated ==
    [][ /\ Len(salary') >= Len(salary)
        /\ \A i \in DOMAIN salary' :
             IF i \in DOMAIN salary
             THEN \/ salary'[i].payment_status = salary[i].payment_status
                  \/ /\ salary[i].payment_status = "pending"
                     /\ salary'[i].payment_status = "approved"
                  \/ /\ salary[i].payment_status = "approved"
                     /\ salary'[i].payment_status = "paid"
             ELSE salary'[i].payment_status = "pending"
      ]_vars

\* C15 (payment state machine), amended: a SalaryRecord is created pending
\* and its status only moves forward, pending -> approved, approved -> paid
\* or pending -> paid; it never moves backwards and never leaves paid.
C15_PaymentStateMachine ==
    [][ /\ Len(salary') >= Len(salary)
        /\ \A i \in DOMAIN salary' :
             IF i \in DOMAIN salary
             THEN \/ salary'[i].payment_status = salary[i].payment_status
                  \/ /\ salary[i].payment_status = "pending"
                     /\ salary'[i].payment_status \in { "approved", "paid" }
                  \/ /\ salary[i].payment_status = "approved"
                     /\ salary'[i].payment_status = "paid"
             ELSE salary'[i].payment_status = "pending"
      ]_vars

\* one SalaryRecord has been paid, another one approved and not paid yet
C15_Witness ==
    \E i, j \in DOMAIN salary :
        /\ salary[i].payment_status = "paid"
        /\ salary[i].payment_date # None
        /\ salary[j].payment_status = "approved"
        /\ salary[j].payment_date = None

\* C16 (advance state machine): an advance is created active, its status is
\* active or cleared and only changes from active to cleared, no advance is
\* removed, and a step that changes an advance's status, remaining_amount or
\* total_deducted is the ledger transaction of a run for its staff member.
C16_AdvanceStateMachine ==
    [][ /\ Len(advances') >= Len(advances)
        /\ \A i \in DOMAIN advances' :
             /\ advances'[i].status \in { "active", "cleared" }
             /\ IF i \in DOMAIN advances
                THEN /\ advances'[i].status # advances[i].status =>
                          /\ advances[i].status = "active"
                          /\ advances'[i].status = "cleared"
                     /\ ( \/ advances'[i].status # advances[i].status
                          \/ advances'[i].remaining_amount # advances[i].remaining_amount
                          \/ advances'[i].total_deducted # advances[i].total_deducted )
                        => \E r \in Requests :
                              /\ LedgerStepOf(r)
                              /\ advances[i].staff_id = Head(call[r].queue)
                ELSE advances'[i].status = "active"
      ]_vars

\* one advance has been cleared by the ledger, another one is active, and the
\* update route has just been called for a stored advance
C16_Witness ==
    /\ \E i, j \in DOMAIN advances :
         /\ advances[i].status = "cleared"
         /\ TimesDeducted(i) > 0
         /\ advances[j].status = "active"
    /\ response[1].error = "AttributeError"

\* C17 (NotFound): the step that takes up a single-staff run for a staff
\* identifier without a Staff row ends the call with an error for the caller
\* and leaves the Salary, Achievements and Advances rows as they were; no
\* Salary or Achievements row ever names a staff member that does not exist.
C17_NotFound ==
    [][ /\ \A r \in Requests :
             ( /\ pc[r] = "calc"
               /\ call[r].kind = "single"
               /\ Head(call[r].queue) \notin DOMAIN staff
               /\ pc'[r] # pc[r] )
             => ( /\ pc'[r] = "idle"
                  /\ response'[r].status = "error"
                  /\ response'[r].error \in { "NotFound", "PersistenceFailure" }
                  /\ response'[r].records = << >>
                  /\ salary' = salary
                  /\ achievements' = achievements
                  /\ advances' = advances )
        /\ \A i \in DOMAIN salary' : salary'[i].staff_id \in DOMAIN staff
        /\ \A k \in DOMAIN achievements' : achievements'[k].staff_id \in DOMAIN staff
      ]_vars

\* a run for staff 3, who does not exist, has ended in NotFound while an
\* active advance and a Salary row of other staff are stored
C17_Witness ==
    /\ response[1].status = "error"
    /\ response[1].error = "NotFound"
    /\ pc[1] = "idle"
    /\ \E i \in DOMAIN advances : advances[i].status = "active"
    /\ salary # << >>

\* C18 (no duplicate achievements): in every reachable state there is at most
\* one Achievement record per (staff, target, period).
C18_NoDuplicateAchievements ==
    \A j, k \in DOMAIN achievements :
        ( /\ achievements[j].staff_id = achievements[k].staff_id
          /\ achievements[j].target_id = achievements[k].target_id
          /\ achievements[j].period = achievements[k].period ) => j = k

\* the sales of staff_id dated within the month, added up
SalesOfMonth(staff_id, month_year) ==
    LET year == ParseMonthYear(month_year)[1]
        month == ParseMonthYear(month_year)[2]
        dated == { i \in DOMAIN sales :
                     /\ sales[i].staff_id = staff_id
                     /\ sales[i].sale_date[1] = year
                     /\ sales[i].sale_date[2] = month }
    IN  SumOver([ i \in DOMAIN sales |-> sales[i].sale_amount ], dated)

\* C19 (achievement audit trail): a target evaluation of a run that finds a
\* covering monthly target appends exactly one Achievement, whatever the
\* achievement, with the run's staff member, that target, the month's sales
\* as achieved_amount, their percentage of the target amount (0 for a target
\* amount of 0), the run's target incentive and the month as period; no step
\* changes or removes an Achievement that is stored.
C19_AchievementAuditTrail ==
    [][ /\ Len(achievements') >= Len(achievements)
        /\ \A k \in DOMAIN achievements : achievements'[k] = achievements[k]
        /\ \A r \in Requests :
             ( /\ TargetStepOf(r)
               /\ \E t \in DOMAIN targets :
                     CoversMonth(t, Head(call[r].queue), call[r].month_year) )
             => LET a == achievements'[Len(achievements')]
                    T == targets[a.target_id].total_target_amount
                    S == SalesOfMonth(Head(call[r].queue), call[r].month_year)
                IN  /\ Len(achievements') = Len(achievements) + 1
                    /\ a.staff_id = Head(call[r].queue)
                    /\ CoversMonth(a.target_id, a.staff_id, call[r].month_year)
                    /\ a.achieved_amount = S
                    /\ a.achievement_percentage = (IF T > 0 THEN (S * 100) \div T ELSE 0)
                    /\ a.incentive_earned = loc'[r].target_incentive
                    /\ a.period = call[r].month_year
      ]_vars

\* an evaluation without sales against a target of 10000 left an Achievement
\* of 0 percent, and an evaluation with sales wrote another one after it
C19_Witness ==
    \E j, k \in DOMAIN achievements :
        /\ j < k
        /\ targets[achievements[j].target_id].total_target_amount = 10000
        /\ achievements[j].achieved_amount = 0
        /\ achievements[j].achievement_percentage = 0
        /\ achievements[j].incentive_earned = 0
        /\ achievements[k].achieved_amount > 0

\* SalaryRecord i as a bulk approval for month_year has to leave it
ApprovedInBulk(i, month_year) ==
    IF salary[i].month_year = month_year /\ salary[i].payment_status = "pending"
    THEN [ salary[i] EXCEPT !.payment_status = "approved" ]
    ELSE salary[i]

\* C20 (bulk approval): a bulk approval for month m, by the service or by the
\* route called with m, sets every pending SalaryRecord of month m to approved
\* and leaves every other SalaryRecord, of another month or of month m and
\* already approved or paid, and every other table unchanged.
C20_BulkApproval ==
    [][ \A r \in Requests : \A m \in MonthYears :
          ( bulk_approve_salary(r, m) \/ approve_salaries(r, Some(m)) )
          => ( /\ DOMAIN salary' = DOMAIN salary
               /\ \A i \in DOMAIN salary : salary'[i] = ApprovedInBulk(i, m)
               /\ achievements' = achievements
               /\ advances' = advances )
      ]_vars

\* after a successful approval call: a record of January is approved, the
\* record of January that was already paid is still paid, and a record of
\* February is still pending
C20_Witness ==
    /\ response[1] = Success
    /\ \E i, j, k \in DOMAIN salary :
         /\ salary[i].month_year = "2024-01" /\ salary[i].payment_status = "approved"
         /\ salary[j].month_year = "2024-01" /\ salary[j].payment_status = "paid"
         /\ salary[k].month_year = "2024-02" /\ salary[k].payment_status = "pending"

\* the positions of a step in the steps of a run
Pos(steps, name) == { k \in DOMAIN steps : steps[k] = name }

\* every step named a comes before every step named b
Before(steps, a, b) == \A i \in Pos(steps, a), j \in Pos(steps, b) : i < j

\* the step mutates an advance that is stored
AdvanceMutated == \E i \in DOMAIN advances : advances'[i] # advances[i]

\* advances are mutated only by a run whose target evaluation is over and
\* whose SalaryRecord is not written yet
LedgerBetweenTargetAndPersist ==
    /\ AdvanceMutated =>
         \E r \in Requests :
            /\ LedgerStepOf(r)
            /\ "target_query" \in Range(loc[r].steps)
            /\ achievements' = achievements
            /\ salary' = salary
    /\ \A r \in Requests : TargetStepOf(r) => advances' = advances
    /\ Len(salary') > Len(salary) =>
         /\ advances' = advances
         /\ \E r \in Requests :
               /\ pc[r] = "persist"
               /\ loc[r].steps[Len(loc[r].steps)] = "advance_ledger"

\* C21 as stated: the steps of a run occur in the order calendar figures,
\* attendance count, sales aggregation, target evaluation with Achievement
\* write, Advance Ledger mutation; every sales aggregation precedes the target
\* evaluation; advances are mutated only after the target evaluation and
\* before the SalaryRecord is written.
C21_StepOrderAsStated ==
    [][ /\ \A r \in Requests :
             LET s == loc'[r].steps IN
             /\ Before(s, "get_working_days", "get_present_days")
             /\ Before(s, "get_present_days", "sales_sum")
             /\ Before(s, "sales_sum", "target_query")
             /\ Before(s, "sales_sum", "achievement_write")
             /\ Before(s, "target_query", "advance_ledger")
             /\ Before(s, "achievement_write", "advance_ledger")
        /\ LedgerBetweenTargetAndPersist
      ]_vars

\* C21 (step ordering), amended: the steps of a run occur in the order
\* working days, present days, Sunday count, target lookup, then, if a target
\* was found, the sales aggregation of the evaluation and the Achievement
\* write, then, if the staff member has an incentive percentage, the sales
\* aggregation of the basic incentive, then the Advance Ledger mutation, then
\* the SalaryRecord; every sales aggregation follows the target lookup, the
\* Achievement write is preceded by one, and advances are mutated only after
\* the target evaluation and before the SalaryRecord is written.
C21_StepOrder ==
    [][ /\ \A r \in Requests :
             LET s == loc'[r].steps IN
             /\ Before(s, "get_working_days", "get_present_days")
             /\ Before(s, "get_present_days", "get_sunday_count")
             /\ Before(s, "get_sunday_count", "target_query")
             /\ Before(s, "target_query", "sales_sum")
             /\ Before(s, "target_query", "achievement_write")
             /\ \A j \in Pos(s, "achievement_write") :
                   \E i \in Pos(s, "sales_sum") : i < j
             /\ Before(s, "sales_sum", "advance_ledger")
             /\ Before(s, "achievement_write", "advance_ledger")
             /\ Before(s, "target_query", "advance_ledger")
             /\ s # << >> => s[1] = "get_working_days"
        /\ LedgerBetweenTargetAndPersist
      ]_vars

\* a run of staff 1 for April 2024, a month without a target, is about to
\* write its SalaryRecord: the sales were added up after the target lookup,
\* for the basic incentive, and the ledger has then deducted the advance
C21_Witness ==
    /\ pc[1] = "persist"
    /\ loc[1].steps = << "get_working_days", "get_present_days", "get_sunday_count",
                         "target_query", "sales_sum", "advance_ledger" >>
    /\ advances[1].total_deducted > 0

\* the covering monthly targets of (staff_id, month_year) whose amount is not
\* positive
ZeroTargets(staff_id, month_year) ==
    { t \in DOMAIN targets :
        CoversMonth(t, staff_id, month_year) /\ targets[t].total_target_amount <= 0 }

\* the run of request r can take its next step
CanProceed(r) ==
    /\ pc[r] = "calc" => ENABLED calculate_salary(r)
    /\ pc[r] = "ledger" => ENABLED calculate_advance_deduction(r)
    /\ pc[r] = "persist" => ENABLED save_salary_record(r)

\* C22 (zero-target degradation): a run whose covering monthly target has
\* total_target_amount <= 0 can take each of its steps; its target evaluation
\* writes an Achievement with achievement_percentage 0 and the incentive
\* actual_sales * incentive_percentage / 100, which is the run's target
\* incentive, and its last step writes a SalaryRecord with that incentive.
C22_ZeroTargetDegradation ==
    [][ \A r \in Requests :
          LET staff_id == Head(call[r].queue)
              month_year == call[r].month_year
          IN  ( /\ pc[r] \in { "calc", "ledger", "persist" }
                /\ staff_id \in DOMAIN staff
                /\ ZeroTargets(staff_id, month_year) # {}
                /\ ZeroTargets(staff_id, month_year) =
                      { t \in DOMAIN targets : CoversMonth(t, staff_id, month_year) } )
              => LET S == SalesOfMonth(staff_id, month_year) IN
                 /\ CanProceed(r)
                 /\ TargetStepOf(r) =>
                      LET a == achievements'[Len(achievements')] IN
                      /\ Len(achievements') = Len(achievements) + 1
                      /\ a.target_id \in ZeroTargets(staff_id, month_year)
                      /\ a.achieved_amount = S
                      /\ a.achievement_percentage = 0
                      /\ a.incentive_earned =
                            (S * targets[a.target_id].incentive_percentage) \div 100
                      /\ loc'[r].target_incentive = a.incentive_earned
                 /\ (pc[r] = "persist" /\ pc'[r] = "idle" /\ response'[r].status = "ok") =>
                      /\ Len(salary') = Len(salary) + 1
                      /\ salary'[Len(salary')].staff_id = staff_id
                      /\ salary'[Len(salary')].month_year = month_year
                      /\ salary'[Len(salary')].target_incentive = loc[r].target_incentive
      ]_vars

\* a run against a target of amount 0 at 10 percent, with sales of 10000, is
\* over: its Achievement has 0 percent and an incentive of 1000, and its
\* SalaryRecord carries that incentive
C22_Witness ==
    /\ \E k \in DOMAIN achievements :
         /\ targets[achievements[k].target_id].total_target_amount = 0
         /\ achievements[k].achieved_amount = 10000
         /\ achievements[k].achievement_percentage = 0
         /\ achievements[k].incentive_earned = 1000
    /\ \E i \in DOMAIN salary : salary[i].target_incentive = 1000
    /\ response[1].status = "ok"

\* the Sundays of a month, from the weekday of its first day: the first
\* Sunday is the day after as many days as that weekday is short of Sunday,
\* and one more Sunday follows for every seven days left
SundaysFromFirstDay(year, month) ==
    LET days == DaysInMonth(year, month)
        first_sunday == 1 + (6 - Weekday(year, month, 1))
    IN  IF first_sunday > days THEN 0 ELSE 1 + (days - first_sunday) \div 7

\* C23 (calendar utility): the figures of every calendar call, of the
\* calculator or of the service, for whatever staff member and stored state,
\* are those of its (year, month): sunday_count is the number of Sundays of
\* the month, working_days the number of its other days, and they add up to
\* the number of days of the month.
C23_CalendarUtility ==
    \A r \in Requests :
        call[r].kind \in { "calendar", "service_calendar" } =>
            LET year == call[r].year
                month == call[r].month
            IN  /\ loc[r].sunday_count = SundaysFromFirstDay(year, month)
                /\ loc[r].working_days =
                      DaysInMonth(year, month) - SundaysFromFirstDay(year, month)
                /\ loc[r].working_days + loc[r].sunday_count = DaysInMonth(year, month)
                /\ loc[r].sunday_count \in { 4, 5 }

\* the figures of February 1900, not a leap year, from the service's loop
\* over the dates: 28 days, 24 working days and 4 Sundays
C23_Witness ==
    /\ call[1].kind = "service_calendar"
    /\ call[1].year = 1900
    /\ call[1].month = 2
    /\ loc[1].working_days = 24
    /\ loc[1].sunday_count = 4

\* the step belongs to a payroll call: it starts one, or a run is in progress
\* before or after it
PayrollStep ==
    \/ nruns' # nruns
    \/ \E r \in Requests : pc[r] # "idle" \/ pc'[r] # "idle"

\* C24 (read-only inputs): no step of a payroll call, single-staff or batch,
\* succeeding or failing, changes the StaffMember, AttendanceRecord,
\* SaleRecord or Target rows; a step that writes shows in the Achievement,
\* CashAdvance or SalaryRecord rows only.
C24_ReadOnlyInputs ==
    [][ PayrollStep =>
          /\ staff' = staff
          /\ attendance' = attendance
          /\ sales' = sales
          /\ targets' = targets
      ]_vars

\* a batch for January 2024 has returned its two SalaryRecords, having
\* written an Achievement and deducted the advance, and the staff, attendance,
\* sales and target rows are those it started from
C24_Witness ==
    /\ pc[1] = "idle"
    /\ Len(response[1].records) = 2
    /\ Len(salary) = 2
    /\ achievements # << >>
    /\ advances[1].total_deducted = 1000
    /\ staff = StaffRows
    /\ attendance = AttendanceRows \o AprilAttendanceRows
    /\ sales = SalesRows \o AprilSalesRows
    /\ targets = TargetRows

\* the periods of targets i and j share a day
PeriodsOverlap(i, j) ==
    /\ DateLE(targets[i].period_start, targets[j].period_end)
    /\ DateLE(targets[j].period_start, targets[i].period_end)

\* C25 (non-overlapping monthly targets): in every state reached by target
\* creations and updates, no staff member has two targets of kind monthly
\* whose periods share a day.
C25_NonOverlappingMonthlyTargets ==
    \A i, j \in DOMAIN targets :
        ( /\ i # j
          /\ targets[i].staff_id = targets[j].staff_id
          /\ targets[i].target_type = "monthly"
          /\ targets[j].target_type = "monthly" )
        => ~ PeriodsOverlap(i, j)

\* the rows of the attendance table for (staff_id, today)
AttendanceOf(att, staff_id, today) ==
    { i \in DOMAIN att : att[i].staff_id = staff_id /\ att[i].date = today }

\* C26 (one attendance record per day): no check-in or check-out leaves two
\* AttendanceRecords for one (staff, date); a check-in on a day already
\* checked in, a check-out without a record for the day and a check-out on a
\* day already checked out are refused and leave the records unchanged; an
\* accepted check-out changes nothing but the check_out_time of the day's
\* record.
C26_OneAttendancePerDay ==
    [][ /\ \A i, j \in DOMAIN attendance' :
             ( /\ attendance'[i].staff_id = attendance'[j].staff_id
               /\ attendance'[i].date = attendance'[j].date ) => i = j
        /\ \A r \in Requests : \A staff_id \in DOMAIN staff : \A today \in AttendanceDates :
             LET rows == AttendanceOf(attendance, staff_id, today) IN
             /\ ( /\ check_in(r, staff_id, today)
                  /\ \E i \in rows : attendance[i].check_in_time # None )
                => ( response'[r].status = "error" /\ attendance' = attendance )
             /\ ( check_out(r, staff_id, today) /\ rows = {} )
                => ( response'[r].status = "error" /\ attendance' = attendance )
             /\ ( /\ check_out(r, staff_id, today)
                  /\ \E i \in rows : attendance[i].check_out_time # None )
                => ( response'[r].status = "error" /\ attendance' = attendance )
             /\ ( check_out(r, staff_id, today) /\ response'[r].status = "ok" )
                => \E i \in rows :
                      /\ attendance[i].check_out_time = None
                      /\ attendance'[i].check_out_time # None
                      /\ attendance' = [ attendance EXCEPT
                             ![i].check_out_time = attendance'[i].check_out_time ]
      ]_vars

\* staff 2 checked in and out on 5 January 2024, a day without a record
\* before, and the second check-out of a day has just been refused
C26_Witness ==
    /\ \E i \in DOMAIN attendance :
         /\ attendance[i].staff_id = 2
         /\ attendance[i].date = << 2024, 1, 5 >>
         /\ attendance[i].check_in_time # None
         /\ attendance[i].check_out_time # None
    /\ response[1] = Failure("AlreadyCheckedOut")

\* the advances of staff_id, and those of them that are active
AdvancesOf(staff_id) == { i \in DOMAIN advances : advances[i].staff_id = staff_id }
ActiveAdvancesOf(staff_id) ==
    { i \in AdvancesOf(staff_id) : advances[i].status = "active" }

Orders(S) ==
    { order \in [ 1..Cardinality(S) -> S ] :
        \A i, j \in 1..Cardinality(S) : order[i] = order[j] => i = j }

C30_LedgerFrame ==
    [][ /\ \A r \in Requests : LedgerStepOf(r) =>
             LET staff_id == Head(call[r].queue)
                 deducted == [ i \in DOMAIN advances |->
                     advances'[i].total_deducted - advances[i].total_deducted ]
             IN  /\ DOMAIN advances' = DOMAIN advances
                 /\ \A i \in DOMAIN advances :
                       ( \/ advances[i].staff_id # staff_id
                         \/ advances[i].status = "cleared" )
                       => advances'[i] = advances[i]
                 /\ loc'[r].advance_deduction =
                       SumOver(deducted, ActiveAdvancesOf(staff_id))
        /\ ( PayrollStep /\ \A r \in Requests : ~ LedgerStepOf(r) )
             => advances' = advances
      ]_vars

\* staff 1 was paid twice: the first run cleared the full advance of 1500,
\* the second run deducted nothing; the advance of staff 2 is as it was issued
C30_Witness ==
    /\ \E a, b \in DOMAIN salary :
         /\ a < b
         /\ salary[a].staff_id = 1 /\ salary[a].advance_deduction = 1500
         /\ salary[b].staff_id = 1 /\ salary[b].advance_deduction = 0
    /\ \E i, j \in DOMAIN advances :
         /\ advances[i].staff_id = 1
         /\ advances[i].status = "cleared"
         /\ advances[i].total_deducted = 1500
         /\ advances[j].staff_id = 2
         /\ advances[j].status = "active"
         /\ advances[j].remaining_amount = 1500
         /\ advances[j].total_deducted = 0

====
